---- MODULE Spec2Model ----
(***************************************************************************)
(* Model of streamlit_app.py: a single-page survey.  One Streamlit session *)
(* (st.session_state), the filesystem under the root directory, the wall   *)
(* clock, and the outputs of the most recent script run.  Every user event *)
(* (button press, checkbox change) is one action: the widget callback, if  *)
(* any, followed by the complete top-to-bottom script run(s) it triggers.  *)
(*                                                                         *)
(* Conventions.  A participant name is a sequence of one-character         *)
(* strings, so that strip() and slugify() can be computed character by     *)
(* character.  A selected_file cell is a sequence of text pieces whose     *)
(* concatenation is the Python string (<<>> is the empty string).  The     *)
(* answers dict is a set of entries [folder, mode, choice]; choice is a    *)
(* sequence of file names (<<f>> for mode "best", the others list for      *)
(* "worst_equal", <<>> for None).                                          *)
(***************************************************************************)
EXTENDS Integers, Sequences, FiniteSets, TLC

\* ------------------------------------------------------------------ bounds

\* The clock takes the values 0..MaxClock (one value per wall-clock second).
MaxClock == 1

\* ------------------------------------------------- constants of the program

MIRROR == "Mirror Change Top Layers _ Alpha_ 0_5.png"
NOINT == "No Intervension _ Alpha_ 0_5.png"
MIRROR_UPPER == "Mirror Change Top Layers _ Alpha_ 0_5.PNG"
PHOTO == "photo.png"
NOTES == "notes.txt"

\* Stands for the name of any saved copy, "{slug}_results_{stamp}.csv".
CSV == "results.csv"

IMG_EXTS == {".png", ".jpg", ".jpeg", ".webp", ".bmp", ".tiff"}

ALLOWED_IMAGES == {MIRROR, NOINT}

RESULTS == "results"

\* ------------------------------------------------------------ the universe

\* The sub-directories of the root that hold images.
DataFolders == {"A", "B"}

\* Every directory name that can appear under the root, in Python's string
\* order (sorted(["A", "B", "results"])).
FolderOrder == <<"A", "B", "results">>

\* Every file name that can appear in a data folder, in Python's string order.
FileOrder == <<MIRROR_UPPER, MIRROR, NOINT, NOTES, PHOTO>>

\* What a data folder can hold: both allowlisted images and another image,
\* no allowlisted image, or (the first folder) one allowlisted image among
\* files that fail one test of list_images each.
FolderContents(folder) ==
    IF folder = "A"
    THEN { {MIRROR, NOINT, PHOTO}, {NOINT, NOTES, MIRROR_UPPER}, {PHOTO} }
    ELSE { {MIRROR, NOINT, PHOTO}, {PHOTO} }

\* The data folders whose listing may raise.
MayBeUnreadable == {"B"}

\* The texts the name box can hold.
NameTexts == { <<>>, <<" ">>, <<" ", "x", " ", "y">>, <<"z", "!">> }

\* ----------------------------------------------------------- pure helpers

Range(s) == { s[i] : i \in 1..Len(s) }

Min(a, b) == IF a <= b THEN a ELSE b

Max(a, b) == IF a >= b THEN a ELSE b

\* sorted(set): the members of set in the order of the sorted universe.
SortBy(order, set) == SelectSeq(order, LAMBDA x : x \in set)

\* os.path.splitext(f)[1].lower() on the file names of the universe.
ExtLower(f) ==
    CASE f = MIRROR -> ".png"
      [] f = NOINT -> ".png"
      [] f = MIRROR_UPPER -> ".png"
      [] f = PHOTO -> ".png"
      [] f = NOTES -> ".txt"
      [] f = CSV -> ".csv"

\* str.strip() (whitespace is the blank here).
RECURSIVE LStrip(_)
LStrip(s) == IF s # <<>> /\ Head(s) = " " THEN LStrip(Tail(s)) ELSE s

RECURSIVE RStrip(_)
RStrip(s) ==
    IF s # <<>> /\ s[Len(s)] = " " THEN RStrip(SubSeq(s, 1, Len(s) - 1)) ELSE s

Strip(s) == RStrip(LStrip(s))

\* The characters the regular expression [^A-Za-z0-9_\-] keeps, among those
\* the name texts use.
SlugChars == {"x", "y", "z", "_", "-"}

\* str.replace(" ", "_")
ReplaceSpaces(s) == [i \in 1..Len(s) |-> IF s[i] = " " THEN "_" ELSE s[i]]

slugify(text) ==
    SelectSeq(ReplaceSpaces(Strip(text)), LAMBDA c : c \in SlugChars)

\* ------------------------------------------------------------- randomizer

\* random.Random(seed): the generator's first output words for the seed
\* "{name}|{suffix}", each cut to its three high bits (getrandbits(k) for
\* k <= 3 is the k high bits of one word).  The values are CPython's.
RngWords(name, suffix) ==
    CASE name = <<"x", " ", "y">> /\ suffix = "questions" -> <<6, 1, 1, 1, 7, 4>>
      [] name = <<"x", " ", "y">> /\ suffix = "A" -> <<0, 7, 5, 2, 4, 5>>
      [] name = <<"x", " ", "y">> /\ suffix = "B" -> <<0, 2, 4, 3, 6, 4>>
      [] name = <<"x", " ", "y">> /\ suffix = "results" -> <<2, 5, 2, 1, 3, 6>>
      [] name = <<"x", "_", "y">> /\ suffix = "questions" -> <<4, 2, 7, 3, 0, 5>>
      [] name = <<"x", "_", "y">> /\ suffix = "A" -> <<7, 5, 4, 3, 7, 4>>
      [] name = <<"x", "_", "y">> /\ suffix = "B" -> <<1, 3, 5, 7, 5, 6>>
      [] name = <<"x", "_", "y">> /\ suffix = "results" -> <<2, 0, 6, 5, 7, 0>>
      [] name = <<"z", "!">> /\ suffix = "questions" -> <<0, 7, 4, 6, 3, 2>>
      [] name = <<"z", "!">> /\ suffix = "A" -> <<0, 5, 5, 2, 7, 1>>
      [] name = <<"z", "!">> /\ suffix = "B" -> <<3, 7, 2, 2, 6, 4>>
      [] name = <<"z", "!">> /\ suffix = "results" -> <<0, 3, 2, 3, 2, 1>>
      [] name = <<>> /\ suffix = "questions" -> <<1, 5, 1, 0, 3, 6>>
      [] name = <<>> /\ suffix = "A" -> <<2, 0, 0, 7, 2, 7>>
      [] name = <<>> /\ suffix = "B" -> <<4, 6, 0, 1, 4, 1>>
      [] name = <<>> /\ suffix = "results" -> <<7, 7, 4, 1, 6, 1>>

\* int.bit_length() for the lengths that occur.
BitLength(n) == CASE n = 1 -> 1 [] n \in 2..3 -> 2 [] n \in 4..7 -> 3

\* getrandbits(k) of the word at position pos.
GetRandBits(words, pos, k) ==
    CASE k = 1 -> words[pos] \div 4
      [] k = 2 -> words[pos] \div 2
      [] k = 3 -> words[pos]

\* Random._randbelow(n): draw BitLength(n) bits until the draw is below n.
\* Yields the draw and the position of the next unused word.
RECURSIVE RandBelow(_, _, _)
RandBelow(words, pos, n) ==
    LET r == GetRandBits(words, pos, BitLength(n))
    IN  IF r >= n THEN RandBelow(words, pos + 1, n)
        ELSE [r |-> r, pos |-> pos + 1]

\* x[i], x[j] = x[j], x[i] on a 1-based sequence.
Swap(x, i, j) == [x EXCEPT ![i] = x[j], ![j] = x[i]]

\* Random.shuffle(x): for i in reversed(range(1, len(x))), swap x[i] with
\* x[randbelow(i + 1)].  i is the 0-based index of the source.
RECURSIVE ShuffleFrom(_, _, _, _)
ShuffleFrom(x, words, pos, i) ==
    IF i < 1 THEN x
    ELSE LET d == RandBelow(words, pos, i + 1)
         IN  ShuffleFrom(Swap(x, i + 1, d.r + 1), words, d.pos, i - 1)

Shuffle(x, name, suffix) ==
    IF Len(x) < 2 THEN x ELSE ShuffleFrom(x, RngWords(name, suffix), 1, Len(x) - 1)

\* ------------------------------------------------------------------ state

VARIABLES
    \* st.session_state
    state_initialized,   \* BOOLEAN
    questions,           \* sequence of [folder, path, images]
    current_idx,         \* 0-based index into questions
    participant_name,    \* stripped name stored by Start / Refresh
    answers,             \* the answers dict: a set of [folder, mode, choice]
    wstate,              \* per-control keys: "absent", "off" or "on"
    \* the filesystem and the clock
    rootReadable,        \* os.listdir(root) succeeds
    folderFiles,         \* data folder -> set of file names in it
    unreadableFolders,   \* data folders whose listing raises
    writable,            \* the filesystem under the root accepts writes
    resultsExists,       \* root/results is a directory
    resultsFiles,        \* the files in root/results stamped with the
                         \* current second, as [slug, stamp]; older files
                         \* can no longer be named by a save and are left out
    now,                 \* datetime.now(), in seconds
    \* the outputs of the most recent script run
    run,
    \* history: whether events are recorded, the most recent event, and a
    \* Start / Refresh remembered for comparison with a later one
    recording,
    last,
    lastLoad,
    refLoad

session == <<state_initialized, questions, current_idx, participant_name,
             answers, wstate>>

environment ==
    <<rootReadable, folderFiles, unreadableFolders, writable, recording>>

vars == <<state_initialized, questions, current_idx, participant_name,
          answers, wstate, rootReadable, folderFiles, unreadableFolders,
          writable, resultsExists, resultsFiles, now, run, recording, last,
          lastLoad, refLoad>>

\* The session state as one record, for the operators that transform it.
SS == [init |-> state_initialized, questions |-> questions,
       idx |-> current_idx, name |-> participant_name,
       answers |-> answers, wstate |-> wstate]

\* ---------------------------------------------------------- catalog loader

\* os.listdir(root): the data folders, a plain file, and results once made.
RootEntries ==
    DataFolders \cup {NOTES} \cup (IF resultsExists THEN {RESULTS} ELSE {})

\* os.path.isdir(os.path.join(root, d))
IsDir(d) == d # NOTES

\* Mutant of list_folders: the listing of an unreadable root is not caught
\* and its folders are returned all the same.
list_folders_uncaught == SortBy(FolderOrder, {d \in RootEntries : IsDir(d)})

\* The listing of an unreadable root raises and the except returns [].
list_folders ==
    IF rootReadable
    THEN SortBy(FolderOrder, {d \in RootEntries : IsDir(d)})
    ELSE <<>>

\* os.listdir(folder_path) of a folder that can be listed.  The files of
\* the results directory are the saved copies, for which CSV stands.
Listing(folder) ==
    IF folder = RESULTS THEN (IF resultsFiles # {} THEN {CSV} ELSE {})
    ELSE folderFiles[folder]

\* Mutant of list_images: the allowlist test is left out.
list_images_any_image(folder) ==
    IF folder \in unreadableFolders THEN <<>>
    ELSE SortBy(FileOrder, {f \in Listing(folder) : ExtLower(f) \in IMG_EXTS})

\* The listing of an unreadable folder raises and leaves files = [].
list_images(folder) ==
    IF folder \in unreadableFolders THEN <<>>
    ELSE SortBy(FileOrder,
                {f \in Listing(folder) :
                    ExtLower(f) \in IMG_EXTS /\ f \in ALLOWED_IMAGES})

\* --------------------------------------------------- Start / Refresh handler

\* The folder order of the question list.
FolderList(name, shuffle_questions) ==
    IF shuffle_questions THEN Shuffle(list_folders, name, "questions")
    ELSE list_folders

\* Mutant of ImageList: the generator is seeded from the clock instead of
\* the folder name.
ImageList_seeded_by_clock(name, folder, shuffle_images) ==
    IF shuffle_images
    THEN Shuffle(list_images(folder), name, IF now = 0 THEN "A" ELSE "B")
    ELSE list_images(folder)

\* The image order of one folder.
ImageList(name, folder, shuffle_images) ==
    IF shuffle_images THEN Shuffle(list_images(folder), name, folder)
    ELSE list_images(folder)

Question(name, folder, shuffle_images) ==
    [folder |-> folder, path |-> <<"root", folder>>,
     images |-> ImageList(name, folder, shuffle_images)]

\* The loop of lines 122-134: one question per folder with images, in the
\* order of folders.
RECURSIVE QuestionsOf(_, _, _)
QuestionsOf(name, folders, shuffle_images) ==
    IF folders = <<>> THEN <<>>
    ELSE LET q == Question(name, Head(folders), shuffle_images)
             rest == QuestionsOf(name, Tail(folders), shuffle_images)
         IN  IF q.images # <<>> THEN <<q>> \o rest ELSE rest

BuildQuestions(name, shuffle_questions, shuffle_images) ==
    QuestionsOf(name, FolderList(name, shuffle_questions), shuffle_images)

\* Mutant of can_start: the text of the name box is tested before it is
\* stripped.
can_start_unstripped(text) == text # <<>>

\* can_start: the stripped text of the name box is non-empty.
can_start(text) == Strip(text) # <<>>

\* Mutant of StartHandler: the answers of the session before are kept.
StartHandler_keeping_answers(ss, text, shuffle_questions, shuffle_images) ==
    [ss EXCEPT !.questions =
                   BuildQuestions(Strip(text), shuffle_questions, shuffle_images),
               !.idx = 0,
               !.name = Strip(text),
               !.init = TRUE]

\* Mutant of StartHandler: the index starts at the second question.
StartHandler_at_second(ss, text, shuffle_questions, shuffle_images) ==
    [ss EXCEPT !.questions =
                   BuildQuestions(Strip(text), shuffle_questions, shuffle_images),
               !.idx = 1,
               !.name = Strip(text),
               !.answers = {},
               !.init = TRUE]

\* The handler of the Start / Refresh button.
StartHandler(ss, text, shuffle_questions, shuffle_images) ==
    [ss EXCEPT !.questions =
                   BuildQuestions(Strip(text), shuffle_questions, shuffle_images),
               !.idx = 0,
               !.name = Strip(text),
               !.answers = {},
               !.init = TRUE]

\* ------------------------------------------------------------ answers dict

\* dict.get(folder): the entries stored under the key.
Entries(ans, folder) == {e \in ans : e.folder = folder}

HasAnswer(ans, folder) == Entries(ans, folder) # {}

Get(ans, folder) == CHOOSE e \in Entries(ans, folder) : TRUE

\* Mutant of DictSet: the dict is replaced by the one entry.
DictSet_alone(ans, folder, mode, choice) ==
    {[folder |-> folder, mode |-> mode, choice |-> choice]}

\* answers[folder] = {"mode": mode, "choice": choice}
DictSet(ans, folder, mode, choice) ==
    (ans \ Entries(ans, folder))
        \cup {[folder |-> folder, mode |-> mode, choice |-> choice]}

\* ------------------------------------------------------------ control keys

BestKey(folder, fname) == <<"best", folder, fname>>

WorstKey(folder, fname) == <<"worst", folder, fname>>

NoneKey(folder) == <<"none", folder, "">>

Keys ==
    {BestKey(f, i) : f \in DataFolders, i \in ALLOWED_IMAGES}
        \cup {WorstKey(f, i) : f \in DataFolders, i \in ALLOWED_IMAGES}
        \cup {NoneKey(f) : f \in DataFolders}

OnOff(b) == IF b THEN "on" ELSE "off"

\* idx = max(0, min(idx, nq - 1))
ClampIdx(idx, nq) == Max(0, Min(idx, nq - 1))

\* The question on display.
CurQ(ss) == ss.questions[ClampIdx(ss.idx, Len(ss.questions)) + 1]

\* Mutant of InitKeys: keys not yet in the session state are set to True.
InitKeys_to_true(w, folder, imgs) ==
    [k \in Keys |->
        IF w[k] = "absent"
           /\ (k = NoneKey(folder)
               \/ \E i \in Range(imgs) : k \in {BestKey(folder, i), WorstKey(folder, i)})
        THEN "on" ELSE w[k]]

\* Lines 193-198: keys not yet in the session state are set to False.
InitKeys(w, folder, imgs) ==
    [k \in Keys |->
        IF w[k] = "absent"
           /\ (k = NoneKey(folder)
               \/ \E i \in Range(imgs) : k \in {BestKey(folder, i), WorstKey(folder, i)})
        THEN "off" ELSE w[k]]

\* Lines 214-215: the first image not among the others, if any.
WorstOf(imgs, others) == SelectSeq(imgs, LAMBDA f : f \notin Range(others))

\* Lines 201-219: the keys of the folder on display are reset and set again
\* from its stored answer; nothing changes when there is no answer.
RestoreKeys(w, ans, folder, imgs) ==
    IF ~HasAnswer(ans, folder) THEN w
    ELSE LET prev == Get(ans, folder)
             worst_of == WorstOf(imgs, prev.choice)
         IN  [k \in Keys |->
                IF k = NoneKey(folder) THEN OnOff(prev.mode = "none")
                ELSE IF \E i \in Range(imgs) : k = BestKey(folder, i)
                THEN OnOff(prev.mode = "best" /\ prev.choice = <<k[3]>>)
                ELSE IF \E i \in Range(imgs) : k = WorstKey(folder, i)
                THEN OnOff(prev.mode = "worst_equal" /\ worst_of # <<>>
                           /\ k[3] = Head(worst_of))
                ELSE w[k]]

\* Lines 159-219 of a script run: clamp the index, prepare the keys.
Prologue(ss) ==
    LET q == CurQ(ss)
    IN  [ss EXCEPT !.idx = ClampIdx(ss.idx, Len(ss.questions)),
                   !.wstate = RestoreKeys(InitKeys(ss.wstate, q.folder, q.images),
                                          ss.answers, q.folder, q.images)]

\* -------------------------------------------------------------- callbacks

\* Each callback acts on the folder and images of the question on display.
KeysAfter(w, folder, imgs, best, worst, none) ==
    [k \in Keys |->
        IF k = NoneKey(folder) THEN OnOff(none)
        ELSE IF \E i \in Range(imgs) : k = BestKey(folder, i) THEN OnOff(k[3] = best)
        ELSE IF \E i \in Range(imgs) : k = WorstKey(folder, i) THEN OnOff(k[3] = worst)
        ELSE w[k]]

\* Mutant of select_best: the entry is added beside the one already stored.
select_best_accumulating(ss, chosen_fname) ==
    LET q == CurQ(ss)
    IN  [ss EXCEPT !.answers = @ \cup {[folder |-> q.folder, mode |-> "best",
                                        choice |-> <<chosen_fname>>]},
                   !.wstate = KeysAfter(@, q.folder, q.images, chosen_fname, "", FALSE)]

\* Mutant of select_best: a checkbox that was unticked removes the answer.
select_best_unticking(ss, chosen_fname) ==
    LET q == CurQ(ss)
    IN  IF ss.wstate[BestKey(q.folder, chosen_fname)] = "on"
        THEN [ss EXCEPT !.answers = DictSet(@, q.folder, "best", <<chosen_fname>>),
                        !.wstate = KeysAfter(@, q.folder, q.images,
                                             chosen_fname, "", FALSE)]
        ELSE [ss EXCEPT !.answers = @ \ Entries(@, q.folder),
                        !.wstate = KeysAfter(@, q.folder, q.images, "", "", FALSE)]

select_best(ss, chosen_fname) ==
    LET q == CurQ(ss)
    IN  [ss EXCEPT !.answers = DictSet(@, q.folder, "best", <<chosen_fname>>),
                   !.wstate = KeysAfter(@, q.folder, q.images, chosen_fname, "", FALSE)]

\* Mutant of Others: the chosen image is kept and the others dropped.
Others_keeping_chosen(imgs, chosen_fname) ==
    SelectSeq(imgs, LAMBDA f : f = chosen_fname)

\* others = [f for f in imgs if f != chosen_fname]
Others(imgs, chosen_fname) == SelectSeq(imgs, LAMBDA f : f # chosen_fname)

select_worst(ss, chosen_fname) ==
    LET q == CurQ(ss)
    IN  [ss EXCEPT !.answers = DictSet(@, q.folder, "worst_equal",
                                       Others(q.images, chosen_fname)),
                   !.wstate = KeysAfter(@, q.folder, q.images, "", chosen_fname, FALSE)]

select_none(ss) ==
    LET q == CurQ(ss)
    IN  [ss EXCEPT !.answers = DictSet(@, q.folder, "none", <<>>),
                   !.wstate = KeysAfter(@, q.folder, q.images, "", "", TRUE)]

\* ------------------------------------------------------------- navigation

\* The Previous button is disabled on the first question, Next on the last.
PrevDisabled(idx) == idx = 0

NextDisabled(idx, nq) == idx >= nq - 1

PrevIdx(idx) == Max(0, idx - 1)

\* Mutant of NextIdx: the step is left out.
NextIdx_without_step(idx, nq) == Min(nq - 1, idx)

NextIdx(idx, nq) == Min(nq - 1, idx + 1)

\* --------------------------------------------------------------- exporter

\* " and ".join(others)
RECURSIVE JoinAnd(_)
JoinAnd(others) ==
    IF others = <<>> THEN <<>>
    ELSE IF Len(others) = 1 THEN others
    ELSE <<Head(others), " and ">> \o JoinAnd(Tail(others))

\* Lines 299-303: the text of a worst_equal answer.
WorstEqualMsg(others) ==
    IF Len(others) >= 2
    THEN <<"equal score for ", others[1], " and ", others[2]>>
    ELSE <<"equal score for ">> \o JoinAnd(others)

\* Line 306 reads the name none_label, which the script never binds: a row
\* for an answer of mode "none" raises NameError.
RowRaises(ans, folder) == HasAnswer(ans, folder) /\ Get(ans, folder).mode = "none"

\* The selected_file of the row of a folder (lines 291-308).
SelectedFile(ans, folder) ==
    IF ~HasAnswer(ans, folder) THEN <<>>
    ELSE LET a == Get(ans, folder)
         IN  CASE a.mode = "best" -> a.choice
               [] a.mode = "worst_equal" -> WorstEqualMsg(a.choice)
               [] OTHER -> <<>>

Row(ss, folder) ==
    [participant |-> ss.name, folder |-> folder,
     selected_file |-> SelectedFile(ss.answers, folder)]

\* Mutant of ExportOrder: the rows follow the sorted folder names.
ExportOrder_sorted(ss) ==
    SortBy(FolderOrder, {ss.questions[i].folder : i \in 1..Len(ss.questions)})

\* The order in which the export loop visits the questions.
ExportOrder(ss) == [i \in 1..Len(ss.questions) |-> ss.questions[i].folder]

\* results, when no row raises.
ExportRows(ss) ==
    LET order == ExportOrder(ss)
    IN  [i \in 1..Len(order) |-> Row(ss, order[i])]

ExportRaises(ss) ==
    \E i \in 1..Len(ss.questions) : RowRaises(ss.answers, ss.questions[i].folder)

\* answered = the number of keys of the answers dict.
Answered(ss) == Cardinality({e.folder : e \in ss.answers})

\* Mutant of FileName: the time stamp is left out of the name.
FileName_without_stamp(name, clock) == [slug |-> slugify(name), stamp |-> 0]

\* fn, without its fixed parts "_results_" and ".csv".
FileName(name, clock) == [slug |-> slugify(name), stamp |-> clock]

\* os.makedirs(results_dir, exist_ok=True) raises when the directory is
\* missing and cannot be made.
MakedirsRaises == ~resultsExists /\ ~writable

\* ------------------------------------------------------------- script run

NoRun ==
    [outcome |-> "none", rows |-> <<>>, warning |-> FALSE, saved |-> FALSE,
     overwrote |-> FALSE, download |-> FALSE, data |-> <<>>, fn |-> <<>>,
     answered |-> 0, complete |-> FALSE]

\* The framework forgets the state of widgets a finished run did not draw;
\* the best checkboxes are the only keyed widgets.
DropStale(w, drawn) ==
    [k \in Keys |-> IF k[1] = "best" /\ k \notin drawn THEN "absent" ELSE w[k]]

DrawnKeys(ss) ==
    LET q == CurQ(ss) IN {BestKey(q.folder, i) : i \in Range(q.images)}

\* Lines 282-336 of a run that has drawn the grid: rows, CSV, disk copy,
\* download.  Yields the session, the run's outputs and the results
\* directory afterwards.
ExportAndSave(ss) ==
    IF ExportRaises(ss) THEN
        [ss |-> ss, dir |-> resultsExists, files |-> resultsFiles,
         run |-> [NoRun EXCEPT !.outcome = "error_none_label",
                               !.answered = Answered(ss)]]
    ELSE IF MakedirsRaises THEN
        [ss |-> ss, dir |-> resultsExists, files |-> resultsFiles,
         run |-> [NoRun EXCEPT !.outcome = "error_makedirs",
                               !.rows = ExportRows(ss),
                               !.answered = Answered(ss)]]
    ELSE
        LET fn == FileName(ss.name, now)
        IN  [ss |-> [ss EXCEPT !.wstate = DropStale(@, DrawnKeys(ss))],
             dir |-> TRUE,
             files |-> IF writable THEN resultsFiles \cup {fn} ELSE resultsFiles,
             run |-> [outcome |-> "done", rows |-> ExportRows(ss),
                      warning |-> ~writable, saved |-> writable,
                      overwrote |-> writable /\ fn \in resultsFiles,
                      download |-> TRUE, data |-> ExportRows(ss),
                      fn |-> <<fn>>, answered |-> Answered(ss),
                      complete |-> Answered(ss) = Len(ss.questions)]]

\* A script run from line 144 on in which no navigation button is pressed.
ScriptRun(ss) ==
    IF ~ss.init THEN
        [ss |-> [ss EXCEPT !.wstate = DropStale(@, {})],
         dir |-> resultsExists, files |-> resultsFiles,
         run |-> [NoRun EXCEPT !.outcome = "stop_uninit"]]
    ELSE IF ss.questions = <<>> THEN
        [ss |-> [ss EXCEPT !.wstate = DropStale(@, {})],
         dir |-> resultsExists, files |-> resultsFiles,
         run |-> [NoRun EXCEPT !.outcome = "stop_noq"]]
    ELSE ExportAndSave(Prologue(ss))

\* The state after an event whose script run starts from session state ss.
Rendered(ss) ==
    \E r \in {ScriptRun(ss)} :
        /\ state_initialized' = r.ss.init
        /\ questions' = r.ss.questions
        /\ current_idx' = r.ss.idx
        /\ participant_name' = r.ss.name
        /\ answers' = r.ss.answers
        /\ wstate' = r.ss.wstate
        /\ resultsExists' = r.dir
        /\ resultsFiles' = r.files
        /\ run' = r.run
        /\ UNCHANGED <<environment, now>>

\* The grid and the navigation buttons are on the page.
Active == state_initialized /\ questions # <<>>

\* ---------------------------------------------------------------- history

\* The record of an event: the operation and the file or the name text it
\* was given; for a selection, the folder on display and that folder's
\* entries in the answers dict before it; for a navigation button or a
\* Start / Refresh, the index before it; for a Start / Refresh, whether any
\* answer was stored before it.
NoEvent ==
    [op |-> "load", file |-> "", text |-> <<>>, idx |-> 0, folder |-> "",
     before |-> {}, hadAnswers |-> FALSE]

Recorded(e) == IF recording THEN e ELSE last

SelectEvent(op, file) ==
    [NoEvent EXCEPT !.op = op, !.file = file, !.folder = CurQ(SS).folder,
                    !.before = Entries(answers, CurQ(SS).folder)]

NavEvent(op) == [NoEvent EXCEPT !.op = op, !.idx = current_idx]

StartEvent(text) ==
    [NoEvent EXCEPT !.op = "start", !.text = text, !.idx = current_idx,
                    !.hadAnswers = answers # {}]

RerunEvent == [NoEvent EXCEPT !.op = "rerun"]

\* ------------------------------------------------------------------- Init

\* The page has been loaded once: nothing is initialized and the first run
\* stopped at line 151.
InitSession ==
    /\ state_initialized = FALSE
    /\ questions = <<>>
    /\ current_idx = 0
    /\ participant_name = <<>>
    /\ answers = {}
    /\ wstate = [k \in Keys |-> "absent"]
    /\ resultsFiles = {}
    /\ now = 0
    /\ run = [NoRun EXCEPT !.outcome = "stop_uninit"]
    /\ last = NoEvent
    /\ lastLoad = <<>>
    /\ refLoad = <<>>

\* The root directory is either unreadable, or holds the data folders, each
\* unreadable or with one of the FolderContents (a folder that cannot be
\* listed holds all its files: they play no part).  The results directory may
\* already exist on a read-only filesystem; on a writable one the first save
\* makes it.
InitFilesystem ==
    /\ rootReadable \in BOOLEAN
    /\ unreadableFolders \in SUBSET MayBeUnreadable
    /\ folderFiles \in [DataFolders -> SUBSET Range(FileOrder)]
    /\ \A f \in DataFolders : folderFiles[f] \in FolderContents(f)
    /\ rootReadable = FALSE => unreadableFolders = {}
    /\ \A f \in DataFolders :
          (f \in unreadableFolders \/ ~rootReadable)
              => folderFiles[f] = {MIRROR, NOINT, PHOTO}
    /\ writable \in BOOLEAN
    /\ resultsExists \in BOOLEAN
    /\ writable => ~resultsExists

Init == InitSession /\ InitFilesystem /\ recording = FALSE

\* The sessions whose events are recorded run over a readable root with an
\* allowlisted image in each folder; the filesystem is read-only and the
\* results directory exists, so that every run reaches the download and the
\* directory stays as it is.
InitEvents ==
    /\ InitSession
    /\ InitFilesystem
    /\ rootReadable
    /\ unreadableFolders = {}
    /\ folderFiles["B"] = {MIRROR, NOINT, PHOTO}
    /\ folderFiles["A"] # {PHOTO}
    /\ ~writable
    /\ resultsExists
    /\ recording = TRUE

\* ---------------------------------------------------------------- actions

\* What a Start / Refresh read and built.
Load(text, sq, si) ==
    [name |-> Strip(text), shuffle_questions |-> sq, shuffle_images |-> si,
     resultsExists |-> resultsExists,
     questions |-> BuildQuestions(Strip(text), sq, si)]

\* The Start / Refresh button is pressed with the given text in the name
\* box and the two options as given: the handler, then the rest of the run.
StartStep(text, sq, si) ==
    /\ can_start(text)
    /\ Rendered(StartHandler(SS, text, sq, si))

StartRefresh ==
    \E text \in NameTexts, sq \in BOOLEAN, si \in BOOLEAN :
        /\ StartStep(text, sq, si)
        /\ last' = Recorded(StartEvent(text))
        /\ UNCHANGED <<lastLoad, refLoad>>

\* A run caused by an edit of the name box or of an option: no handler.
Rerun ==
    /\ Rendered(SS)
    /\ last' = Recorded(RerunEvent)
    /\ UNCHANGED <<lastLoad, refLoad>>

\* A click on the best checkbox of an image flips the value under its key
\* before the on_change callback is called.
CheckboxFlip(ss, fname) ==
    [ss EXCEPT !.wstate[BestKey(CurQ(ss).folder, fname)] =
                   IF @ = "on" THEN "off" ELSE "on"]

\* A best checkbox of the question on display is clicked: the flip, its
\* on_change callback, then a run.
ClickBest ==
    /\ Active
    /\ \E f \in Range(CurQ(SS).images) :
          /\ Rendered(select_best(CheckboxFlip(SS, f), f))
          /\ last' = Recorded(SelectEvent("best", f))
    /\ UNCHANGED <<lastLoad, refLoad>>

\* The callbacks _select_worst and _select_none, then a run.
SelectWorst ==
    /\ Active
    /\ \E f \in Range(CurQ(SS).images) :
          /\ Rendered(select_worst(SS, f))
          /\ last' = Recorded(SelectEvent("worst", f))
    /\ UNCHANGED <<lastLoad, refLoad>>

SelectNone ==
    /\ Active
    /\ Rendered(select_none(SS))
    /\ last' = Recorded(SelectEvent("none", ""))
    /\ UNCHANGED <<lastLoad, refLoad>>

\* The Previous button: nothing happens while it is disabled; otherwise the
\* run it triggers stores the new index at line 273 and reruns.
PressPrevious ==
    /\ Active
    /\ IF PrevDisabled(current_idx)
       THEN UNCHANGED <<session, environment, resultsExists, resultsFiles,
                        now, run>>
       ELSE Rendered([Prologue(SS) EXCEPT !.idx = PrevIdx(current_idx)])
    /\ last' = Recorded(NavEvent("previous"))
    /\ UNCHANGED <<lastLoad, refLoad>>

PressNext ==
    /\ Active
    /\ IF NextDisabled(current_idx, Len(questions))
       THEN UNCHANGED <<session, environment, resultsExists, resultsFiles,
                        now, run>>
       ELSE Rendered([Prologue(SS) EXCEPT
                         !.idx = NextIdx(current_idx, Len(questions))])
    /\ last' = Recorded(NavEvent("next"))
    /\ UNCHANGED <<lastLoad, refLoad>>

\* A second passes: no file in root/results bears the new stamp yet.
Tick ==
    /\ now < MaxClock
    /\ now' = now + 1
    /\ resultsFiles' = {}
    /\ UNCHANGED <<session, environment, resultsExists, run, last, lastLoad,
                   refLoad>>

Next ==
    \/ StartRefresh
    \/ Rerun
    \/ ClickBest
    \/ SelectWorst
    \/ SelectNone
    \/ PressPrevious
    \/ PressNext
    \/ Tick

Spec == Init /\ [][Next]_vars

\* Start / Refresh with its history: the load is recorded, and the one
\* before it is either remembered or not.
StartLogged ==
    \E text \in NameTexts, sq \in BOOLEAN, si \in BOOLEAN :
        /\ StartStep(text, sq, si)
        /\ last' = Recorded(StartEvent(text))
        /\ lastLoad' = <<Load(text, sq, si)>>
        /\ refLoad' \in {refLoad, lastLoad}

NextLoads == StartLogged \/ Tick

SpecLoads == Init /\ [][NextLoads]_vars

SpecEvents == InitEvents /\ [][Next]_vars

\* ------------------------------------------------------------------ claims

QuestionFolders == [i \in 1..Len(questions) |-> questions[i].folder]

RowFolders(rows) == [i \in 1..Len(rows) |-> rows[i].folder]

BestEntry(folder, f) == [folder |-> folder, mode |-> "best", choice |-> <<f>>]

\* The rows of the most recent run that built its table to the end.
RowOf(folder) == CHOOSE r \in Range(run.rows) : r.folder = folder

\* C1: every folder has at most one entry in the answers dict, and after a
\* click on the best checkbox of image y the folder on display has exactly
\* the entry Best(y), whatever was stored for it before.
C1_SelectBestReplaces ==
    /\ \A f \in DataFolders : Cardinality(Entries(answers, f)) <= 1
    /\ last.op = "best" =>
          Entries(answers, last.folder) = {BestEntry(last.folder, last.file)}

\* A click on best(y) has acted on a folder that held Best(x), x # y.
C1_Witness ==
    /\ last.op = "best"
    /\ \E e \in last.before : e.mode = "best" /\ e.choice # <<last.file>>
    /\ Entries(answers, last.folder) = {BestEntry(last.folder, last.file)}

SameFilesystem(a, b) == a.resultsExists = b.resultsExists

\* C3 as stated: two Start / Refresh with the same name over the same
\* filesystem contents build the same question list (folder order and image
\* orders).
C3_OrderFromNameAlone ==
    (lastLoad # <<>> /\ refLoad # <<>>) =>
        LET a == refLoad[1]
            b == lastLoad[1]
        IN  (a.name = b.name /\ SameFilesystem(a, b)) => a.questions = b.questions

\* C3 as amended: two Start / Refresh with the same name and the same
\* settings of the two randomize options over the same filesystem contents
\* build the same question list.
C3_OrderFromNameAndOptions ==
    (lastLoad # <<>> /\ refLoad # <<>>) =>
        LET a == refLoad[1]
            b == lastLoad[1]
        IN  (/\ a.name = b.name
             /\ a.shuffle_questions = b.shuffle_questions
             /\ a.shuffle_images = b.shuffle_images
             /\ SameFilesystem(a, b)) => a.questions = b.questions

\* Two Start / Refresh with the same name and options, both randomizing,
\* have built the same two questions of two images; the clock has advanced.
C3_Witness ==
    /\ lastLoad # <<>> /\ refLoad # <<>>
    /\ refLoad[1] = lastLoad[1]
    /\ lastLoad[1].shuffle_questions /\ lastLoad[1].shuffle_images
    /\ Len(lastLoad[1].questions) = 2
    /\ \A i \in 1..2 : Len(lastLoad[1].questions[i].images) = 2
    /\ now > 0

\* C4: in an initialized session with questions on a filesystem that refuses
\* writes, the run warns and still offers the download with all the rows
\* (runs stopped by the unbound none_label, C7, aside).
C4_DiskFailureIsWarning ==
    (Active /\ ~writable /\ run.outcome # "error_none_label") =>
        /\ run.outcome = "done"
        /\ run.warning
        /\ run.download
        /\ run.data = run.rows
        /\ Len(run.data) = Len(questions)

\* C5 as stated: no save writes to a file that is already there.
C5_NeverOverwritten == ~run.overwrote

\* C5 as amended: every saved copy is named after the slug of the session's
\* participant name and the second of the save, so a save can only replace a
\* copy saved in the same second under a name with the same slug.
C5_OverwriteOnlySameSlugSameSecond ==
    /\ \A f \in resultsFiles : f.stamp = now
    /\ run.saved =>
          /\ run.fn[1].slug = slugify(participant_name)
          /\ run.fn[1].stamp <= now
          /\ (run.fn[1].stamp = now => run.fn[1] \in resultsFiles)
    /\ run.overwrote => run.saved

\* A save has replaced the copy written earlier in the same second.
C5_Witness == run.overwrote /\ run.saved /\ run.fn[1] \in resultsFiles

\* C6: Next moves from i to i+1 below the last question and leaves the last
\* one in place; Previous moves from i to i-1 above the first question and
\* leaves the first one in place.
C6_Navigation ==
    /\ last.op = "next" =>
          current_idx = (IF last.idx < Len(questions) - 1
                         THEN last.idx + 1 ELSE last.idx)
    /\ last.op = "previous" =>
          current_idx = (IF last.idx > 0 THEN last.idx - 1 ELSE last.idx)

\* Previous has moved from the second question back to the first.
C6_Witness ==
    /\ last.op = "previous" /\ last.idx = 1 /\ current_idx = 0
    /\ Len(questions) = 2

\* C7: while a folder's stored answer is None, the run finishes its export
\* with a row for the folder whose selected_file is the "none" label.
C7_NoneIsExported ==
    \A f \in DataFolders :
        (Active /\ \E e \in Entries(answers, f) : e.mode = "none") =>
            /\ run.outcome = "done"
            /\ RowOf(f).selected_file = <<"none">>

\* The text C8 gives for a worst_equal answer.
C8_Text(others) ==
    CASE Len(others) >= 2 ->
            <<"equal score for ", others[1], " and ", others[2]>>
      [] Len(others) = 1 -> <<"equal score for ", others[1]>>
      [] OTHER -> <<"equal score for ">>

\* C8: after SelectWorst(f) the folder on display holds WorstEqual(others),
\* others being its images in display order without f, and a finished export
\* has for it the text "equal score for a and b" (two or more others) or
\* "equal score for a" (one).
C8_WorstEqual ==
    last.op = "worst" =>
        LET imgs == CurQ(SS).images
            others == SelectSeq(imgs, LAMBDA g : g # last.file)
        IN  /\ CurQ(SS).folder = last.folder
            /\ Entries(answers, last.folder) =
                  {[folder |-> last.folder, mode |-> "worst_equal",
                    choice |-> others]}
            /\ (run.outcome = "done" /\ others # <<>>) =>
                  RowOf(last.folder).selected_file = C8_Text(others)

\* SelectWorst has acted on a folder of two images and the export finished.
C8_Witness ==
    /\ last.op = "worst"
    /\ run.outcome = "done"
    /\ Len(CurQ(SS).images) = 2
    /\ RowOf(last.folder).selected_file =
          <<"equal score for ", CHOOSE g \in Range(CurQ(SS).images) : g # last.file>>

\* C9: after Start / Refresh the answers dict is empty, the index is 0, the
\* stored name is the (stripped) text of the name box, the question list is
\* the catalog's folders that hold an allowlisted image, and a finished
\* export has no selected file in any row.
C9_StartResets ==
    last.op = "start" =>
        /\ state_initialized
        /\ answers = {}
        /\ current_idx = 0
        /\ participant_name = Strip(last.text)
        /\ Range(QuestionFolders) =
              {f \in DataFolders : folderFiles[f] \cap ALLOWED_IMAGES # {}}
        /\ run.outcome = "done" =>
              \A i \in 1..Len(run.rows) : run.rows[i].selected_file = <<>>

\* Start / Refresh has acted on a session with answers, on its second
\* question.
C9_Witness ==
    /\ last.op = "start" /\ last.hadAnswers /\ last.idx = 1
    /\ answers = {} /\ current_idx = 0 /\ run.outcome = "done"

\* C10: every question has a non-empty image list made of allowlisted files
\* present in its folder, and a readable root's folders that hold an
\* allowlisted image, and no others, are questions.
C10_QuestionsHaveAllowlistedImages ==
    /\ \A i \in 1..Len(questions) :
          LET q == questions[i]
          IN  /\ q.folder \in DataFolders \ unreadableFolders
              /\ q.images # <<>>
              /\ Range(q.images) = folderFiles[q.folder] \cap ALLOWED_IMAGES
              /\ Len(q.images) = Cardinality(Range(q.images))
    /\ \A i, j \in 1..Len(questions) :
          questions[i].folder = questions[j].folder => i = j
    /\ state_initialized =>
          Range(QuestionFolders) =
              {f \in DataFolders \ unreadableFolders :
                  rootReadable /\ folderFiles[f] \cap ALLOWED_IMAGES # {}}

\* Over a root whose folder A holds both allowlisted files and whose folder
\* B holds neither, the question list is exactly A.
C10_Witness ==
    /\ state_initialized
    /\ folderFiles["A"] = {MIRROR, NOINT, PHOTO}
    /\ folderFiles["B"] = {PHOTO} /\ "B" \notin unreadableFolders
    /\ QuestionFolders = <<"A">>
    /\ Range(questions[1].images) = ALLOWED_IMAGES

\* C11: on every run over an active session the results table holds one row
\* per question and per question folder, none twice, each with the
\* participant name; the row of a folder without answer has an empty
\* selected_file, the row of a folder answered Best(f) has selected_file f.
C11_ExportHoldsOneRowPerQuestion ==
    Active =>
        /\ Len(run.rows) = Len(questions)
        /\ Range(RowFolders(run.rows)) = Range(QuestionFolders)
        /\ \A i, j \in 1..Len(run.rows) :
              run.rows[i].folder = run.rows[j].folder => i = j
        /\ \A i \in 1..Len(run.rows) :
              LET r == run.rows[i]
              IN  /\ r.participant = participant_name
                  /\ ~HasAnswer(answers, r.folder) => r.selected_file = <<>>
                  /\ \A f \in ALLOWED_IMAGES :
                        BestEntry(r.folder, f) \in answers
                            => r.selected_file = <<f>>

\* C12: in every state of an active session, whatever the number of
\* answered questions, the last run built the CSV of one row per question
\* and offered it for download.
C12_ExportAlwaysAvailable ==
    Active =>
        /\ run.outcome = "done"
        /\ run.download
        /\ Len(run.data) = Len(questions)

\* C13: a root or a folder that cannot be listed yields an empty list and
\* Start / Refresh still initializes the session; the folder that cannot be
\* listed is no question, and over a root that cannot be listed the question
\* list is empty and the run ends at the "no questions found" message.
C13_ListingErrorsYieldNoQuestion ==
    /\ ~rootReadable => list_folders = <<>>
    /\ \A f \in unreadableFolders : list_images(f) = <<>>
    /\ state_initialized =>
          /\ \A f \in unreadableFolders : f \notin Range(QuestionFolders)
          /\ ~rootReadable => questions = <<>>
          /\ questions = <<>> =>
                /\ run.outcome = "stop_noq"
                /\ run.rows = <<>> /\ ~run.download

\* Start / Refresh with a valid name over a root that cannot be listed: the
\* session is initialized, without question, and the run stopped at the
\* message.
C13_Witness ==
    /\ ~rootReadable
    /\ state_initialized /\ participant_name # <<>>
    /\ questions = <<>>
    /\ run.outcome = "stop_noq"

\* C14: Start / Refresh takes effect only for a name box whose stripped text
\* is non-empty, so an initialized session has a non-empty, stripped
\* participant name; while the session is not initialized there is no
\* question, no widget key, and no run has built rows, saved or offered a
\* download.
C14_NameBeforeStart ==
    /\ last.op = "start" => Strip(last.text) # <<>>
    /\ state_initialized =>
          /\ participant_name # <<>>
          /\ participant_name = Strip(participant_name)
    /\ ~state_initialized =>
          /\ questions = <<>> /\ answers = {}
          /\ \A k \in Keys : wstate[k] = "absent"
          /\ run.outcome \in {"none", "stop_uninit"}
          /\ run.rows = <<>> /\ ~run.download /\ ~run.saved

\* Start / Refresh with the text " x y" in the name box: the session is
\* initialized with the name "x y".
C14_Witness ==
    /\ last.op = "start" /\ last.text = <<" ", "x", " ", "y">>
    /\ state_initialized
    /\ participant_name = <<"x", " ", "y">>

\* C15 as stated: in an initialized session current_idx lies between 0 and
\* len(questions) - 1.
C15_IndexWithinQuestions ==
    state_initialized =>
        /\ 0 <= current_idx
        /\ current_idx <= Len(questions) - 1

\* C15, amended: in an initialized session current_idx lies between 0 and
\* len(questions) - 1 when there is a question, and is 0 when there is none.
C15_IndexWithinQuestionsOrZero ==
    state_initialized =>
        /\ 0 <= current_idx
        /\ questions # <<>> => current_idx <= Len(questions) - 1
        /\ questions = <<>> => current_idx = 0

\* The last of two questions is on display, with an answer stored.
C15_Witness ==
    /\ state_initialized
    /\ Len(questions) = 2
    /\ current_idx = Len(questions) - 1
    /\ answers # {}

\* C16: a press of Next or Previous leaves the answers, the question list
\* and the participant name as they were; a selection leaves current_idx,
\* the question list, the participant name and the answers of every folder
\* but the one on display as they were; the question list, and with it the
\* image order of each question, changes on Start / Refresh only.
C16_FrameConditions ==
    [][ /\ (now' = now /\ last'.op \in {"next", "previous"}) =>
              /\ answers' = answers
              /\ questions' = questions
              /\ participant_name' = participant_name
        /\ (now' = now /\ last'.op \in {"best", "worst", "none"}) =>
              /\ current_idx' = current_idx
              /\ questions' = questions
              /\ participant_name' = participant_name
              /\ \A f \in DataFolders \ {last'.folder} :
                    Entries(answers', f) = Entries(answers, f)
        /\ questions' # questions => (now' = now /\ last'.op = "start")
      ]_vars

\* A click on a best checkbox of the second question while the first
\* question keeps its answer.
C16_Witness ==
    /\ last.op = "best"
    /\ current_idx = 1
    /\ last.folder = questions[2].folder
    /\ HasAnswer(answers, questions[1].folder)
    /\ HasAnswer(answers, questions[2].folder)

\* The images of a folder whose best, or worst, key is True.
BestOn(folder) == {i \in ALLOWED_IMAGES : wstate[BestKey(folder, i)] = "on"}

WorstOn(folder) == {i \in ALLOWED_IMAGES : wstate[WorstKey(folder, i)] = "on"}

NoneOn(folder) == wstate[NoneKey(folder)] = "on"

\* C17: of every folder at most one best key is True, and no two of a best
\* key, a worst key and the none key are True together; after _select_best,
\* _select_worst or _select_none the key of the selection is True and the
\* keys of the two other kinds of the folder are False.
C17_ControlsExclusive ==
    /\ \A f \in DataFolders :
          /\ Cardinality(BestOn(f)) <= 1
          /\ ~(BestOn(f) # {} /\ WorstOn(f) # {})
          /\ ~(BestOn(f) # {} /\ NoneOn(f))
          /\ ~(WorstOn(f) # {} /\ NoneOn(f))
    /\ last.op = "best" =>
          /\ BestOn(last.folder) = {last.file}
          /\ WorstOn(last.folder) = {} /\ ~NoneOn(last.folder)
    /\ last.op = "worst" =>
          /\ WorstOn(last.folder) = {last.file}
          /\ BestOn(last.folder) = {} /\ ~NoneOn(last.folder)
    /\ last.op = "none" =>
          /\ NoneOn(last.folder)
          /\ BestOn(last.folder) = {} /\ WorstOn(last.folder) = {}

\* _select_worst on a folder whose answer was Best: the worst key alone is
\* True.
C17_Witness ==
    /\ last.op = "worst"
    /\ \E e \in last.before : e.mode = "best"
    /\ WorstOn(last.folder) = {last.file}
    /\ BestOn(last.folder) = {}

\* C18: on every run that draws a question the keys of the folder on display
\* are those of its stored answer: the best key of image f is True exactly
\* when the answer is Best(f), and without answer no key of the folder is
\* True.
C18_ControlsFollowAnswer ==
    Active =>
        LET q == CurQ(SS)
        IN  /\ \A f \in Range(q.images) :
                  wstate[BestKey(q.folder, f)] = "on"
                      <=> BestEntry(q.folder, f) \in answers
            /\ ~HasAnswer(answers, q.folder) =>
                  /\ BestOn(q.folder) = {}
                  /\ WorstOn(q.folder) = {}
                  /\ ~NoneOn(q.folder)

\* The number of folders with an answer.
AnsweredCount(ans) == Cardinality({e.folder : e \in ans})

\* C19: no step but Start / Refresh takes the answer of a folder away, so the
\* number of answered folders does not go down between two Start / Refresh;
\* a click that unticks the best checkbox of the image f stored as Best(f)
\* leaves the answer Best(f) and the key of the checkbox True.
C19_AnswersStay ==
    [][ /\ (now' = now /\ last'.op # "start") =>
              /\ \A f \in DataFolders :
                    HasAnswer(answers, f) => HasAnswer(answers', f)
              /\ AnsweredCount(answers') >= AnsweredCount(answers)
        /\ (/\ now' = now /\ last'.op = "best"
            /\ BestEntry(last'.folder, last'.file) \in answers
            /\ wstate[BestKey(last'.folder, last'.file)] = "on") =>
              /\ BestEntry(last'.folder, last'.file) \in answers'
              /\ wstate'[BestKey(last'.folder, last'.file)] = "on"
      ]_vars

\* The checkbox of the image stored as the best of its folder was clicked:
\* the answer and the key are as before the click.
C19_Witness ==
    /\ last.op = "best"
    /\ last.before = {BestEntry(last.folder, last.file)}
    /\ BestEntry(last.folder, last.file) \in answers
    /\ wstate[BestKey(last.folder, last.file)] = "on"

\* C20: in an active session every key of answers is the folder of a
\* question, so the number of answered folders is at most the number of
\* questions, and the last run showed the completion message exactly when
\* every question has an answer.
C20_AnswersWithinQuestions ==
    Active =>
        /\ {e.folder : e \in answers} \subseteq Range(QuestionFolders)
        /\ AnsweredCount(answers) <= Len(questions)
        /\ run.answered = AnsweredCount(answers)
        /\ run.complete <=>
              \A i \in 1..Len(questions) : HasAnswer(answers, questions[i].folder)

====
